---- MODULE Spec2Model ----
(***************************************************************************)
(* HydroSense (src/app.py): a Streamlit script.  Every user interaction    *)
(* re-runs the script top to bottom; the part under `if predict_clicked`   *)
(* encodes (year, station id) into the model's columns, calls the model,   *)
(* renders one metric card per pollutant, builds and renders the chart and *)
(* renders the low-visibility note.                                        *)
(*                                                                         *)
(* Concentrations are fixed-point numbers, in 1/100 mg/L.  Strings that    *)
(* the code concatenates (column names) are sequences of characters.       *)
(***************************************************************************)
EXTENDS Integers, Sequences, FiniteSets, TLC

VARIABLES
    pkl_model,             \* pollution_model.pkl, the file read at line 55
    pkl_columns,           \* model_columns.pkl, the file read at line 56
    model,                 \* script global, line 55
    model_cols,            \* script global, line 56
    pollutants,            \* script global, line 59
    safe_limits,           \* script global, lines 60-67
    year_input,            \* widget value, line 77
    station_id,            \* widget value, line 87
    predict_clicked,       \* widget value, line 98
    pc,                    \* position of the script run
    input_encoded,         \* lines 102-108: sequence of [name, value] columns (one row)
    predicted_pollutants,  \* line 110
    i,                     \* iterations of the metric card loop completed, line 119
    chart_df_long,         \* line 158
    invisible_pollutants,  \* lines 206-209
    rendered,              \* the elements this run has put on the page, in order
    steps,                 \* history: the pipeline steps this run has executed, in order
    remembered,            \* history: the outcome of one earlier Predict run
    cmp_in,                \* input of the metric card body checked on its own
    cmp_out                \* its result

vars == <<pkl_model, pkl_columns, model, model_cols, pollutants, safe_limits,
          year_input, station_id, predict_clicked, pc, input_encoded,
          predicted_pollutants, i, chart_df_long, invisible_pollutants,
          rendered, steps, remembered, cmp_in, cmp_out>>

-----------------------------------------------------------------------------
(* Bounds of the model *)

\* stations offered by the selectbox: "1" .. str(MaxStation) (the code offers 22)
MaxStation == 3

\* years the user enters: MinYear, MaxYear and DefaultYear .. DefaultYear + YearSpan
YearSpan == 1

-----------------------------------------------------------------------------
(* Constants of the program *)

MinYear == 2000

MaxYear == 2100

DefaultYear == 2022

\* whole mg/L and hundredths of mg/L as a fixed-point number
mgL(whole, hundredths) == whole * 100 + hundredths

Pollutants == <<"O2", "NO3", "NO2", "SO4", "PO4", "CL">>

SafeLimits ==
    [O2 |-> mgL(5, 0), NO3 |-> mgL(10, 0), NO2 |-> mgL(0, 10),
     SO4 |-> mgL(250, 0), PO4 |-> mgL(0, 10), CL |-> mgL(250, 0)]

label_threshold == mgL(10, 0)

Years == {MinYear, MaxYear} \cup (DefaultYear .. (DefaultYear + YearSpan))

-----------------------------------------------------------------------------
(* Strings *)

Digits == <<"0", "1", "2", "3", "4", "5", "6", "7", "8", "9">>

\* str(n) for 0 <= n <= 99
str(n) ==
    IF n < 10 THEN <<Digits[n + 1]>>
    ELSE <<Digits[(n \div 10) + 1], Digits[(n % 10) + 1]>>

\* options=[str(i) for i in range(1, 23)]
StationOptions == [k \in 1 .. MaxStation |-> str(k)]

YearCol == <<"y", "e", "a", "r">>

IdCol == <<"i", "d">>

\* pandas.get_dummies names an indicator column <column>_<value>
DummyName(column, value) == column \o <<"_">> \o value

IsIndicator(name) ==
    /\ Len(name) > Len(IdCol) + 1
    /\ SubSeq(name, 1, Len(IdCol) + 1) = IdCol \o <<"_">>

-----------------------------------------------------------------------------
(* The artifacts the script loads: not part of the repository's sources *)

Range(s) == {s[k] : k \in 1 .. Len(s)}

Reverse(s) == [k \in 1 .. Len(s) |-> s[Len(s) + 1 - k]]

\* columns of a training frame get_dummies(columns=['id']) built from year and id
FullCols == <<YearCol>> \o [k \in 1 .. MaxStation |-> DummyName(IdCol, str(k))]

\* the same with drop_first=True: station "1" has no column
DropFirstCols == <<YearCol>> \o [k \in 1 .. MaxStation - 1 |-> DummyName(IdCol, str(k + 1))]

Schemas == {FullCols, DropFirstCols, Reverse(FullCols)}

\* outputs of a fitted regressor: one row of leaf values per region of the input space
Leaves ==
    << <<mgL(4, 0), mgL(12, 0), mgL(0, 15), mgL(250, 0), mgL(0, 5), mgL(300, 0)>>,
       <<mgL(12, 50), mgL(15, 0), mgL(11, 0), mgL(300, 0), mgL(10, 0), mgL(200, 0)>>,
       <<mgL(5, 0), mgL(9, 99), mgL(0, 10), mgL(100, 0), mgL(0, 20), mgL(0 - 1, 0)>> >>

\* a regressor fitted with `width` targets
Regressor(width) ==
    [width |-> width,
     leaves |-> [l \in 1 .. Len(Leaves) |->
                    [j \in 1 .. width |-> IF j <= Len(Leaves[l]) THEN Leaves[l][j] ELSE mgL(1, 0)]]]

Models == {Regressor(5), Regressor(6), Regressor(7)}

RECURSIVE WeightedSum(_, _)
WeightedSum(X, k) ==
    IF k = 0 THEN 0 ELSE k * X[k].value + WeightedSum(X, k - 1)

\* model.predict(X)[0]: a deterministic function of the row's values by position
ModelPredict(m, X) == m.leaves[(WeightedSum(X, Len(X)) % Len(m.leaves)) + 1]

-----------------------------------------------------------------------------
(* Feature encoding, lines 102-108 *)

Names(df) == {df[k].name : k \in 1 .. Len(df)}

ValueOf(df, name) == df[CHOOSE k \in 1 .. Len(df) : df[k].name = name].value

\* lines 102-103: pd.get_dummies(DataFrame({'year': [year], 'id': [station]}), columns=['id'])
GetDummies(year, station) ==
    << [name |-> YearCol, value |-> year],
       [name |-> DummyName(IdCol, station), value |-> 1] >>

\* lines 105-107, from the k-th expected column on
RECURSIVE AddMissing(_, _, _)
AddMissing(df, cols, k) ==
    IF k > Len(cols) THEN df
    ELSE IF cols[k] \notin Names(df)
         THEN AddMissing(Append(df, [name |-> cols[k], value |-> 0]), cols, k + 1)
         ELSE AddMissing(df, cols, k + 1)

\* line 108: input_encoded[model_cols]
Reindex(df, cols) ==
    [k \in 1 .. Len(cols) |-> [name |-> cols[k], value |-> ValueOf(df, cols[k])]]

\* a slip: line 108 left out, the frame keeps the order it was built in
EncodeUnordered(year, station, cols) ==
    AddMissing(GetDummies(year, station), cols, 1)

\* a slip: the columns outside the schema are kept after the expected ones
EncodeKeepStray(year, station, cols) ==
    LET df == AddMissing(GetDummies(year, station), cols, 1)
    IN  Reindex(df, cols) \o SelectSeq(df, LAMBDA c : c.name \notin Range(cols))

Encode(year, station, cols) ==
    Reindex(AddMissing(GetDummies(year, station), cols, 1), cols)

-----------------------------------------------------------------------------
(* The body of the metric card loop, lines 121-134 *)

Abs(x) == IF x < 0 THEN 0 - x ELSE x

\* n / d rounded to the nearest integer, ties to even (n >= 0, d > 0)
RoundHalfEven(n, d) ==
    LET q == n \div d
        r == n % d
    IN  IF 2 * r < d THEN q
        ELSE IF 2 * r > d THEN q + 1
        ELSE IF q % 2 = 0 THEN q ELSE q + 1

\* f"{abs(delta):.1f}%" of the quotient num / den, as a number of tenths
FormatPercent(num, den) == RoundHalfEven(Abs(num) * 10, Abs(den))

\* delta < 0 for the quotient num / den
IsNegative(num, den) == (num < 0 /\ den > 0) \/ (num > 0 /\ den < 0)

IsPositive(num, den) == (num > 0 /\ den > 0) \/ (num < 0 /\ den < 0)

\* a slip: a value at the limit counts as below it
CompareTieUnder(p, val, safe_limit) ==
    IF safe_limit = 0
    THEN [raised |-> FALSE, divisors |-> <<>>, delta_str |-> [text |-> "N/A", tenths |-> 0],
          arrow |-> "", delta_color |-> "black"]
    ELSE LET num == (val - safe_limit) * 100
         IN  [raised |-> FALSE, divisors |-> <<safe_limit>>,
              delta_str |-> [text |-> "%", tenths |-> FormatPercent(num, safe_limit)],
              arrow |-> IF ~IsPositive(num, safe_limit) THEN "down" ELSE "up",
              delta_color |-> IF ~IsPositive(num, safe_limit) THEN "#ea3943" ELSE "#16c784"]

\* a slip: the test of line 122 left out, the division of line 127 always runs
CompareNoZeroGuard(p, val, safe_limit) ==
    IF safe_limit = 0
    THEN [raised |-> TRUE, divisors |-> <<safe_limit>>, delta_str |-> [text |-> "", tenths |-> 0],
          arrow |-> "", delta_color |-> ""]
    ELSE LET num == (val - safe_limit) * 100
         IN  [raised |-> FALSE, divisors |-> <<safe_limit>>,
              delta_str |-> [text |-> "%", tenths |-> FormatPercent(num, safe_limit)],
              arrow |-> IF IsNegative(num, safe_limit) THEN "down" ELSE "up",
              delta_color |-> IF IsNegative(num, safe_limit) THEN "#ea3943" ELSE "#16c784"]

\* delta = ((val - safe_limit) / safe_limit) * 100 is the quotient num / safe_limit;
\* divisors lists the divisions the body performed, raised tells whether it raised
Compare(p, val, safe_limit) ==
    IF safe_limit = 0
    THEN [raised |-> FALSE, divisors |-> <<>>, delta_str |-> [text |-> "N/A", tenths |-> 0],
          arrow |-> "", delta_color |-> "black"]
    ELSE LET num == (val - safe_limit) * 100
         IN  [raised |-> FALSE, divisors |-> <<safe_limit>>,
              delta_str |-> [text |-> "%", tenths |-> FormatPercent(num, safe_limit)],
              arrow |-> IF IsNegative(num, safe_limit) THEN "down" ELSE "up",
              delta_color |-> IF IsNegative(num, safe_limit) THEN "#ea3943" ELSE "#16c784"]

\* lines 136-147: the card put on the page
MetricHtml(p, val, c) ==
    [kind |-> "card", p |-> p, val |-> val, arrow |-> c.arrow,
     delta_str |-> c.delta_str, delta_color |-> c.delta_color]

-----------------------------------------------------------------------------
(* Chart data, lines 151-158, and the low-visibility note, lines 206-209 *)

Min(a, b) == IF a < b THEN a ELSE b

\* a slip: the two rows of a pollutant next to each other
MeltByPollutant(names, predicted, limits) ==
    [k \in 1 .. 2 * Len(names) |->
        LET j == (k + 1) \div 2
        IN  IF k % 2 = 1
            THEN [Pollutant |-> names[j], Type |-> "Predicted", Value |-> predicted[j]]
            ELSE [Pollutant |-> names[j], Type |-> "Safe Limit", Value |-> limits[names[j]]]]

\* chart_df.melt(id_vars='Pollutant', var_name='Type', value_name='Value'):
\* the rows of column 'Predicted', then the rows of column 'Safe Limit'
Melt(names, predicted, limits) ==
    [k \in 1 .. 2 * Len(names) |->
        IF k <= Len(names)
        THEN [Pollutant |-> names[k], Type |-> "Predicted", Value |-> predicted[k]]
        ELSE [Pollutant |-> names[k - Len(names)], Type |-> "Safe Limit",
              Value |-> limits[names[k - Len(names)]]]]

\* a slip: `or` for `and` at line 208
DetectEitherSmall(names, predicted, limits) ==
    LET n == Min(Len(names), Len(predicted))
        flag(k) == predicted[k] < label_threshold \/ limits[names[k]] < label_threshold
    IN  SelectSeq([k \in 1 .. n |-> IF flag(k) THEN names[k] ELSE ""], LAMBDA x : x # "")

\* lines 206-209
DetectLowVisibility(names, predicted, limits) ==
    LET n == Min(Len(names), Len(predicted))
        flag(k) == predicted[k] < label_threshold /\ limits[names[k]] < label_threshold
    IN  SelectSeq([k \in 1 .. n |-> IF flag(k) THEN names[k] ELSE ""], LAMBDA x : x # "")

-----------------------------------------------------------------------------
(* The script run.  Streamlit runs the script from the top on every widget  *)
(* interaction; a run is synchronous and is modelled as running to its end  *)
(* (or to its exception) before the next interaction.                       *)

NotLoaded == [width |-> 0, leaves |-> <<>>]

NoLimits == [p \in {} |-> 0]

\* what a Predict run has produced when it ends
Outcome(page, failed) ==
    [year |-> year_input, station |-> station_id, input_encoded |-> input_encoded,
     predicted_pollutants |-> predicted_pollutants, rendered |-> page, failed |-> failed,
     age |-> 0]

\* the history variable keeps its record or takes the outcome of the run that ends
Remember(page, failed) ==
    \E keep \in BOOLEAN :
        remembered' = IF keep /\ predict_clicked THEN <<Outcome(page, failed)>> ELSE remembered

\* the record grows older with every new run: 0 this run, 1 the run before, 2 older
Aged(r) == [k \in 1 .. Len(r) |-> [r[k] EXCEPT !.age = Min(2, r[k].age + 1)]]

Init ==
    /\ pkl_model \in Models
    /\ pkl_columns \in Schemas
    /\ model = NotLoaded
    /\ model_cols = <<>>
    /\ pollutants = <<>>
    /\ safe_limits = NoLimits
    /\ year_input = DefaultYear
    /\ station_id = StationOptions[1]
    /\ predict_clicked = FALSE
    /\ pc = "start"
    /\ input_encoded = <<>>
    /\ predicted_pollutants = <<>>
    /\ i = 0
    /\ chart_df_long = <<>>
    /\ invisible_pollutants = <<>>
    /\ rendered = <<>>
    /\ steps = <<>>
    /\ remembered = <<>>
    /\ cmp_in = <<>>
    /\ cmp_out = <<>>

Idle == pc \in {"done", "failed"}

\* line 77: the user enters another year; the script runs again, the button not pressed
ChangeYear(y) ==
    /\ Idle
    /\ y # year_input
    /\ year_input' = y
    /\ predict_clicked' = FALSE
    /\ pc' = "start"
    /\ UNCHANGED <<pkl_model, pkl_columns, model, model_cols, pollutants, safe_limits,
                   station_id, input_encoded, predicted_pollutants, i, chart_df_long,
                   invisible_pollutants, rendered, steps, remembered, cmp_in, cmp_out>>

\* line 87: the user selects another station
SelectStation(s) ==
    /\ Idle
    /\ s # station_id
    /\ station_id' = s
    /\ predict_clicked' = FALSE
    /\ pc' = "start"
    /\ UNCHANGED <<pkl_model, pkl_columns, model, model_cols, pollutants, safe_limits,
                   year_input, input_encoded, predicted_pollutants, i, chart_df_long,
                   invisible_pollutants, rendered, steps, remembered, cmp_in, cmp_out>>

\* line 98: the user presses Predict; st.button is True in the run the press starts
ClickPredict ==
    /\ Idle
    /\ predict_clicked' = TRUE
    /\ pc' = "start"
    /\ UNCHANGED <<pkl_model, pkl_columns, model, model_cols, pollutants, safe_limits,
                   year_input, station_id, input_encoded, predicted_pollutants, i,
                   chart_df_long, invisible_pollutants, rendered, steps, remembered,
                   cmp_in, cmp_out>>

\* a slip: the block of line 101 not guarded by the button
BranchAlways(clicked) == "encode"

\* line 101: if predict_clicked
Branch(clicked) == IF clicked THEN "encode" ELSE "footer"

\* lines 8-98: a fresh namespace, the page chrome, the artifacts, the tables, the widgets
ScriptTop ==
    /\ pc = "start"
    /\ model' = pkl_model
    /\ model_cols' = pkl_columns
    /\ pollutants' = Pollutants
    /\ safe_limits' = SafeLimits
    /\ input_encoded' = <<>>
    /\ predicted_pollutants' = <<>>
    /\ i' = 0
    /\ chart_df_long' = <<>>
    /\ invisible_pollutants' = <<>>
    /\ rendered' = <<[kind |-> "inputs"]>>
    /\ steps' = <<>>
    /\ remembered' = Aged(remembered)
    /\ pc' = Branch(predict_clicked)
    /\ UNCHANGED <<pkl_model, pkl_columns, year_input, station_id, predict_clicked,
                   cmp_in, cmp_out>>

\* a slip: the missing columns are added to the schema list itself
EncodeStepInPlace ==
    /\ pc = "encode"
    /\ input_encoded' = Encode(year_input, station_id, model_cols)
    /\ model_cols' = model_cols \o
           SelectSeq(<<DummyName(IdCol, station_id)>>, LAMBDA c : c \notin Range(model_cols))
    /\ steps' = Append(steps, "encode")
    /\ pc' = "predict"
    /\ UNCHANGED <<pkl_model, pkl_columns, model, pollutants, safe_limits,
                   year_input, station_id, predict_clicked, predicted_pollutants, i,
                   chart_df_long, invisible_pollutants, rendered, remembered, cmp_in, cmp_out>>

\* lines 102-108
EncodeStep ==
    /\ pc = "encode"
    /\ input_encoded' = Encode(year_input, station_id, model_cols)
    /\ steps' = Append(steps, "encode")
    /\ pc' = "predict"
    /\ UNCHANGED <<pkl_model, pkl_columns, model, model_cols, pollutants, safe_limits,
                   year_input, station_id, predict_clicked, predicted_pollutants, i,
                   chart_df_long, invisible_pollutants, rendered, remembered, cmp_in, cmp_out>>

\* line 110
PredictStep ==
    /\ pc = "predict"
    /\ predicted_pollutants' = ModelPredict(model, input_encoded)
    /\ steps' = Append(steps, "predict")
    /\ pc' = "header"
    /\ UNCHANGED <<pkl_model, pkl_columns, model, model_cols, pollutants, safe_limits,
                   year_input, station_id, predict_clicked, input_encoded, i,
                   chart_df_long, invisible_pollutants, rendered, remembered, cmp_in, cmp_out>>

\* zip(pollutants, predicted_pollutants) stops at the shorter of the two
LoopLength == Min(Len(pollutants), Len(predicted_pollutants))

\* lines 112-118
RenderHeader ==
    /\ pc = "header"
    /\ rendered' = Append(rendered, [kind |-> "header", station |-> station_id, year |-> year_input])
    /\ steps' = Append(steps, "render_header")
    /\ pc' = IF LoopLength = 0 THEN "chart" ELSE "cards"
    /\ UNCHANGED <<pkl_model, pkl_columns, model, model_cols, pollutants, safe_limits,
                   year_input, station_id, predict_clicked, input_encoded,
                   predicted_pollutants, i, chart_df_long, invisible_pollutants,
                   remembered, cmp_in, cmp_out>>

\* lines 119-147: one iteration of the loop
MetricCard ==
    /\ pc = "cards"
    /\ i < LoopLength
    /\ LET p == pollutants[i + 1]
           val == predicted_pollutants[i + 1]
           c == Compare(p, val, safe_limits[p])
       IN  IF c.raised
           THEN /\ rendered' = Append(rendered, [kind |-> "exception", error |-> "ZeroDivisionError"])
                /\ steps' = steps
                /\ pc' = "failed"
           ELSE /\ rendered' = Append(rendered, MetricHtml(p, val, c))
                /\ steps' = steps \o <<"compare", "render_card">>
                /\ pc' = IF i + 1 = LoopLength THEN "chart" ELSE "cards"
    /\ i' = i + 1
    /\ UNCHANGED <<pkl_model, pkl_columns, model, model_cols, pollutants, safe_limits,
                   year_input, station_id, predict_clicked, input_encoded,
                   predicted_pollutants, chart_df_long, invisible_pollutants,
                   remembered, cmp_in, cmp_out>>

\* lines 150-199 when the three columns of chart_df have the same length
ChartBuild ==
    /\ pc = "chart"
    /\ Len(predicted_pollutants) = Len(pollutants)
    /\ chart_df_long' = Melt(pollutants, predicted_pollutants, safe_limits)
    /\ rendered' = Append(rendered, [kind |-> "chart_title"])
    /\ steps' = Append(steps, "chart_build")
    /\ pc' = "render_chart"
    /\ UNCHANGED <<pkl_model, pkl_columns, model, model_cols, pollutants, safe_limits,
                   year_input, station_id, predict_clicked, input_encoded,
                   predicted_pollutants, i, invisible_pollutants, remembered, cmp_in, cmp_out>>

\* lines 150-155 otherwise: pd.DataFrame raises ValueError (arrays of different
\* lengths); Streamlit shows the exception under what the run has rendered and
\* the run ends
ChartBuildRaises ==
    /\ pc = "chart"
    /\ Len(predicted_pollutants) # Len(pollutants)
    /\ rendered' = rendered \o <<[kind |-> "chart_title"],
                                 [kind |-> "exception", error |-> "ValueError"]>>
    /\ pc' = "failed"
    /\ Remember(rendered', TRUE)
    /\ UNCHANGED <<pkl_model, pkl_columns, model, model_cols, pollutants, safe_limits,
                   year_input, station_id, predict_clicked, input_encoded,
                   predicted_pollutants, i, chart_df_long, invisible_pollutants, steps,
                   cmp_in, cmp_out>>

\* lines 191-195: the rows of the chart data that get a printed label
Labelled(rows) == {k \in 1 .. Len(rows) : rows[k].Value >= label_threshold}

\* lines 201-203
RenderChart ==
    /\ pc = "render_chart"
    /\ rendered' = Append(rendered, [kind |-> "chart", data |-> chart_df_long,
                                     labels |-> Labelled(chart_df_long)])
    /\ steps' = Append(steps, "render_chart")
    /\ pc' = "detect"
    /\ UNCHANGED <<pkl_model, pkl_columns, model, model_cols, pollutants, safe_limits,
                   year_input, station_id, predict_clicked, input_encoded,
                   predicted_pollutants, i, chart_df_long, invisible_pollutants,
                   remembered, cmp_in, cmp_out>>

\* lines 206-209
DetectStep ==
    /\ pc = "detect"
    /\ invisible_pollutants' = DetectLowVisibility(pollutants, predicted_pollutants, safe_limits)
    /\ steps' = Append(steps, "detect_low_visibility")
    /\ pc' = "disclaimer"
    /\ UNCHANGED <<pkl_model, pkl_columns, model, model_cols, pollutants, safe_limits,
                   year_input, station_id, predict_clicked, input_encoded,
                   predicted_pollutants, i, chart_df_long, rendered, remembered,
                   cmp_in, cmp_out>>

\* lines 211-220
RenderDisclaimer ==
    /\ pc = "disclaimer"
    /\ IF invisible_pollutants # <<>>
       THEN /\ rendered' = Append(rendered, [kind |-> "disclaimer",
                                             pollutants |-> invisible_pollutants])
            /\ steps' = Append(steps, "render_disclaimer")
       ELSE UNCHANGED <<rendered, steps>>
    /\ pc' = "footer"
    /\ UNCHANGED <<pkl_model, pkl_columns, model, model_cols, pollutants, safe_limits,
                   year_input, station_id, predict_clicked, input_encoded,
                   predicted_pollutants, i, chart_df_long, invisible_pollutants,
                   remembered, cmp_in, cmp_out>>

\* lines 222-313: the expander; the run ends
Footer ==
    /\ pc = "footer"
    /\ rendered' = Append(rendered, [kind |-> "expander"])
    /\ pc' = "done"
    /\ Remember(rendered', FALSE)
    /\ UNCHANGED <<pkl_model, pkl_columns, model, model_cols, pollutants, safe_limits,
                   year_input, station_id, predict_clicked, input_encoded,
                   predicted_pollutants, i, chart_df_long, invisible_pollutants, steps,
                   cmp_in, cmp_out>>

Next ==
    \/ \E y \in Years : ChangeYear(y)
    \/ \E s \in Range(StationOptions) : SelectStation(s)
    \/ ClickPredict
    \/ ScriptTop
    \/ EncodeStep
    \/ PredictStep
    \/ RenderHeader
    \/ MetricCard
    \/ ChartBuild
    \/ ChartBuildRaises
    \/ RenderChart
    \/ DetectStep
    \/ RenderDisclaimer
    \/ Footer

Spec == Init /\ [][Next]_vars

-----------------------------------------------------------------------------
(* The body of the metric card loop on its own, as a function of the        *)
(* pollutant, the predicted value and the safe limit                        *)

CompareValues ==
    {0 - mgL(1, 0), 0, mgL(0, 5), mgL(0, 10), mgL(0, 15), mgL(4, 0), mgL(5, 0), mgL(250, 0)}

CompareLimits == {0} \cup {SafeLimits[Pollutants[k]] : k \in 1 .. Len(Pollutants)}

InitCompare ==
    /\ pkl_model = Regressor(Len(Pollutants))
    /\ pkl_columns = FullCols
    /\ model = NotLoaded
    /\ model_cols = <<>>
    /\ pollutants = Pollutants
    /\ safe_limits = SafeLimits
    /\ year_input = DefaultYear
    /\ station_id = StationOptions[1]
    /\ predict_clicked = FALSE
    /\ pc = "compare"
    /\ input_encoded = <<>>
    /\ predicted_pollutants = <<>>
    /\ i = 0
    /\ chart_df_long = <<>>
    /\ invisible_pollutants = <<>>
    /\ rendered = <<>>
    /\ steps = <<>>
    /\ remembered = <<>>
    /\ \E p \in Range(Pollutants), val \in CompareValues, limit \in CompareLimits :
           cmp_in = <<[p |-> p, val |-> val, safe_limit |-> limit]>>
    /\ cmp_out = <<>>

\* lines 121-134 applied to the input
ApplyCompare ==
    /\ pc = "compare"
    /\ cmp_out = <<>>
    /\ cmp_out' = <<Compare(cmp_in[1].p, cmp_in[1].val, cmp_in[1].safe_limit)>>
    /\ UNCHANGED <<pkl_model, pkl_columns, model, model_cols, pollutants, safe_limits,
                   year_input, station_id, predict_clicked, pc, input_encoded,
                   predicted_pollutants, i, chart_df_long, invisible_pollutants,
                   rendered, steps, remembered, cmp_in>>

NextCompare == ApplyCompare

SpecCompare == InitCompare /\ [][NextCompare]_vars

-----------------------------------------------------------------------------
(* Properties *)

ColumnNames(df) == [k \in 1 .. Len(df) |-> df[k].name]

IsPrefix(a, b) == Len(a) <= Len(b) /\ SubSeq(b, 1, Len(a)) = a

\* the run was started by Predict and has passed lines 102-108
Encoded == predict_clicked /\ pc \notin {"start", "encode", "compare"}

\* the run was started by Predict and has passed line 110
Predicted == Encoded /\ pc # "predict"

\* the selected station's indicator column is one the model expects
KnownStation == DummyName(IdCol, station_id) \in Range(model_cols)

Kinds(page) == {page[k].kind : k \in 1 .. Len(page)}

Cards == SelectSeq(rendered, LAMBDA e : e.kind = "card")

\* C1: for a station whose indicator column is expected, the encoded vector's
\* columns are exactly model_cols in order, its year is the entered year, the
\* selected station's indicator is 1 and every other indicator is 0
C1_EncodeKnownStation ==
    (Encoded /\ KnownStation) =>
        /\ ColumnNames(input_encoded) = model_cols
        /\ \E k \in 1 .. Len(input_encoded) : input_encoded[k].name = YearCol
        /\ \A k \in 1 .. Len(input_encoded) :
              /\ input_encoded[k].name = YearCol => input_encoded[k].value = year_input
              /\ IsIndicator(input_encoded[k].name) =>
                    input_encoded[k].value =
                        (IF input_encoded[k].name = DummyName(IdCol, station_id) THEN 1 ELSE 0)
        /\ Cardinality({k \in 1 .. Len(input_encoded) :
                           IsIndicator(input_encoded[k].name) /\ input_encoded[k].value = 1}) = 1

C1_Witness ==
    /\ Encoded /\ KnownStation
    /\ station_id = StationOptions[2]
    /\ model_cols = Reverse(FullCols)
    /\ year_input = MaxYear

\* C2: a model output that has not one value per pollutant leaves no metric
\* card, no chart and no low-visibility note on the page
C2_NoPartialRender ==
    (Predicted /\ Len(predicted_pollutants) # Len(pollutants)) =>
        Kinds(rendered) \cap {"card", "chart", "disclaimer"} = {}

\* C3: for a station whose indicator column is not expected, encoding raises
\* nothing, the stray column is dropped, the vector has exactly model_cols in
\* order with the year set and every indicator 0, the prediction is made from
\* it and the run renders its results; the only exception a run shows is the
\* one of a model output of the wrong length
C3_UnknownStation ==
    (Encoded /\ ~KnownStation) =>
        /\ ColumnNames(input_encoded) = model_cols
        /\ DummyName(IdCol, station_id) \notin Names(input_encoded)
        /\ \A k \in 1 .. Len(input_encoded) :
              /\ input_encoded[k].name = YearCol => input_encoded[k].value = year_input
              /\ IsIndicator(input_encoded[k].name) => input_encoded[k].value = 0
        /\ Predicted => predicted_pollutants = ModelPredict(model, input_encoded)
        /\ "exception" \in Kinds(rendered) => Len(predicted_pollutants) # Len(pollutants)
        /\ pc = "failed" => Len(predicted_pollutants) # Len(pollutants)
        /\ pc = "done" => {"header", "card", "chart"} \subseteq Kinds(rendered)

C3_Witness ==
    /\ Encoded /\ ~KnownStation
    /\ pc = "done"
    /\ "exception" \notin Kinds(rendered)

\* the run has left the metric card loop
LoopLeft == Predicted /\ pc \notin {"header", "cards"}

\* C4: the metric cards of a request are six, in the order O2, NO3, NO2, SO4, PO4, CL
C4_SixCards ==
    LoopLeft => [k \in 1 .. Len(Cards) |-> Cards[k].p] = Pollutants

\* C5: a card's percent deviation is |v - L| / L * 100 (to the one decimal shown)
\* and its direction is down/red for v < L and up/green for v >= L
C5_Deviation ==
    pc # "start" =>
        \A k \in 1 .. Len(Cards) :
            LET v == Cards[k].val
                L == safe_limits[Cards[k].p]
            IN  L # 0 =>
                  /\ Cards[k].delta_str.text = "%"
                  /\ 2 * Abs(Cards[k].delta_str.tenths * L - Abs(v - L) * 1000) <= L
                  /\ v < L => Cards[k].arrow = "down" /\ Cards[k].delta_color = "#ea3943"
                  /\ v >= L => Cards[k].arrow = "up" /\ Cards[k].delta_color = "#16c784"
                  /\ (Cards[k].p = "O2" /\ v = mgL(4, 0)) =>
                        Cards[k].arrow = "down" /\ Cards[k].delta_str.tenths = 200
                  /\ (Cards[k].p = "NO2" /\ v = mgL(0, 15)) =>
                        Cards[k].arrow = "up" /\ Cards[k].delta_str.tenths = 500

C5_Witness ==
    /\ pc = "done"
    /\ \E a, b, c \in 1 .. Len(Cards) :
          /\ Cards[a].p = "O2" /\ Cards[a].val = mgL(4, 0)
          /\ Cards[b].p = "NO2" /\ Cards[b].val = mgL(0, 15)
          /\ Cards[c].val = safe_limits[Cards[c].p]

\* C6 as stated: twelve rows, the two rows of a pollutant next to each other
C6_PollutantMajor ==
    (pc # "start" /\ chart_df_long # <<>>) =>
        /\ Len(chart_df_long) = 12
        /\ \A k \in 1 .. Len(chart_df_long) :
              /\ chart_df_long[k].Pollutant = Pollutants[(k + 1) \div 2]
              /\ chart_df_long[k].Type = (IF k % 2 = 1 THEN "Predicted" ELSE "Safe Limit")

\* C6: the chart data has twelve rows, two per pollutant: the six Predicted rows
\* in the order of the pollutants, then the six Safe Limit rows in that order
C6_SeriesMajor ==
    (pc # "start" /\ chart_df_long # <<>>) =>
        /\ Len(chart_df_long) = 12
        /\ \A k \in 1 .. Len(chart_df_long) :
              IF k <= 6
              THEN chart_df_long[k] = [Pollutant |-> Pollutants[k], Type |-> "Predicted",
                                       Value |-> predicted_pollutants[k]]
              ELSE chart_df_long[k] = [Pollutant |-> Pollutants[k - 6], Type |-> "Safe Limit",
                                       Value |-> SafeLimits[Pollutants[k - 6]]]

C6_Witness ==
    /\ pc = "render_chart"
    /\ chart_df_long # <<>>
    /\ chart_df_long[2].Pollutant = "NO3"

\* the run has passed lines 206-209
Detected == Predicted /\ pc \in {"disclaimer", "footer", "done"}

Disclaimers == SelectSeq(rendered, LAMBDA e : e.kind = "disclaimer")

\* C7: a pollutant is flagged iff its predicted value and its safe limit are both
\* below 10 mg/L; the note lists the flagged pollutants in their order, and there
\* is no note when none is flagged
C7_LowVisibility ==
    Detected =>
        /\ \A k \in 1 .. Len(Pollutants) :
              Pollutants[k] \in Range(invisible_pollutants) <=>
                  (predicted_pollutants[k] < mgL(10, 0) /\ SafeLimits[Pollutants[k]] < mgL(10, 0))
        /\ invisible_pollutants =
              SelectSeq(Pollutants, LAMBDA p : p \in Range(invisible_pollutants))
        /\ pc \in {"footer", "done"} =>
              IF invisible_pollutants = <<>>
              THEN Disclaimers = <<>>
              ELSE Disclaimers = <<[kind |-> "disclaimer", pollutants |-> invisible_pollutants]>>
        /\ (predicted_pollutants[5] = mgL(0, 5)) => "PO4" \in Range(invisible_pollutants)
        /\ (predicted_pollutants[2] = mgL(12, 0)) => "NO3" \notin Range(invisible_pollutants)

C7_Witness ==
    /\ Detected /\ pc = "done"
    /\ predicted_pollutants[5] = mgL(0, 5)
    /\ predicted_pollutants[2] = mgL(12, 0)
    /\ invisible_pollutants = <<"O2", "NO2", "PO4">>

ResultKinds == {"header", "card", "chart", "disclaimer"}

Results == SelectSeq(rendered, LAMBDA e : e.kind \in ResultKinds)

\* C8 as stated, for a model with one output per pollutant: no card, chart or
\* note is rendered before the comparison of all pollutants and the chart data
\* are complete, and a run without Predict renders no result
C8_RenderAfterAll ==
    (pc # "start" /\ model.width = Len(Pollutants)) =>
        /\ (predict_clicked /\ Kinds(rendered) \cap {"card", "chart", "disclaimer"} # {}) =>
              (i = Len(Pollutants) /\ chart_df_long # <<>>)
        /\ ~predict_clicked => (steps = <<>> /\ Results = <<>>)

\* the steps of a complete pass, with or without the low-visibility note
Canon(note) ==
    <<"encode", "predict", "render_header">>
    \o [k \in 1 .. 2 * Len(Pollutants) |-> IF k % 2 = 1 THEN "compare" ELSE "render_card"]
    \o <<"chart_build", "render_chart", "detect_low_visibility">>
    \o (IF note THEN <<"render_disclaimer">> ELSE <<>>)

RenderStep(kind) == "render_" \o kind

RenderSteps == SelectSeq(steps, LAMBDA x : x \in {RenderStep(kd) : kd \in ResultKinds})

\* C8: the steps of a run started by Predict are, in this order and each once:
\* encode, predict, render the header, then per pollutant compare and render its
\* card, then build the chart data, render the chart, detect low visibility and
\* render the note if any; every element on the page was rendered by its step;
\* a run that ends without an exception has made all of them; a run without
\* Predict makes none and renders no result
C8_StepOrder ==
    pc # "start" =>
        /\ predict_clicked => IsPrefix(steps, Canon(TRUE))
        /\ (predict_clicked /\ pc = "done") => steps = Canon(invisible_pollutants # <<>>)
        /\ [k \in 1 .. Len(Results) |-> RenderStep(Results[k].kind)] = RenderSteps
        /\ ~predict_clicked => (steps = <<>> /\ Results = <<>>)

C8_Witness ==
    /\ predict_clicked
    /\ pc = "done"
    /\ Len(steps) = Len(Canon(TRUE))

\* C9, across requests: a Predict run with the year and station of an earlier
\* one ends with the same vector, prediction and page
C9_SameOutcome ==
    (predict_clicked /\ Idle /\ remembered # <<>>
        /\ remembered[1].year = year_input /\ remembered[1].station = station_id) =>
            /\ remembered[1].input_encoded = input_encoded
            /\ remembered[1].predicted_pollutants = predicted_pollutants
            /\ remembered[1].rendered = rendered
            /\ remembered[1].failed = (pc = "failed")

\* C9, within a run: the artifacts are never written; the model, the schema, the
\* pollutant list and the safe limits are set by lines 55-67 and not changed after
C9_ReadOnly ==
    /\ pkl_model' = pkl_model
    /\ pkl_columns' = pkl_columns
    /\ pc = "start" =>
          /\ model' = pkl_model
          /\ model_cols' = pkl_columns
          /\ pollutants' = Pollutants
          /\ safe_limits' = SafeLimits
    /\ pc # "start" =>
          /\ model' = model
          /\ model_cols' = model_cols
          /\ pollutants' = pollutants
          /\ safe_limits' = safe_limits

\* C9: requests with the same input have the same outcome whatever was requested
\* in between, and no request changes the model, the schema or the tables
C9_Deterministic == [] C9_SameOutcome /\ [][C9_ReadOnly]_vars

C9_Witness ==
    /\ predict_clicked /\ Idle /\ remembered # <<>>
    /\ remembered[1].year = year_input /\ remembered[1].station = station_id
    /\ remembered[1].age = 2
    /\ ~remembered[1].failed

\* C10: with a safe limit of 0 the body gives "N/A", no arrow and divides by
\* nothing; a division it performs has a divisor other than 0, and it never raises
C10_ZeroLimit ==
    cmp_out # <<>> =>
        /\ ~cmp_out[1].raised
        /\ \A k \in 1 .. Len(cmp_out[1].divisors) : cmp_out[1].divisors[k] # 0
        /\ cmp_in[1].safe_limit = 0 =>
              /\ cmp_out[1].delta_str.text = "N/A"
              /\ cmp_out[1].arrow = ""
              /\ cmp_out[1].delta_color = "black"
              /\ cmp_out[1].divisors = <<>>
        /\ cmp_in[1].safe_limit # 0 => cmp_out[1].divisors = <<cmp_in[1].safe_limit>>

C10_Witness ==
    /\ cmp_out # <<>>
    /\ cmp_in[1].safe_limit = 0
    /\ cmp_in[1].val # 0

====
